---- MODULE Spec2Model ----
(***************************************************************************)
(* A model of crawler.py: the hexagonal tiler (get_hex_centers), the       *)
(* paginated drain (get_places), the recursive crawl (search_radius) and   *)
(* the main program (state load, geocode, try/except/finally flush).       *)
(*                                                                         *)
(* Lengths are kept in millimetres so that the decimal edge lengths of the *)
(* resolution table stay integers.  A coordinate (lat, lng) is modelled as *)
(* <<tag, x, y>>: x, y is the position of the point in the lattice of the  *)
(* finest table resolution, and tag tells apart floating point values that *)
(* denote the same ideal point but were computed at different resolutions. *)
(***************************************************************************)
EXTENDS Integers, Sequences, FiniteSets, TLC

\* ------------------------------------------------------------------ bounds
\* runs of the program over the same pair of state files
MaxRuns == 2
\* pages the provider serves for one tile before it stops handing out tokens
MaxPages == 3
\* hops of the largest disk get_hex_centers is tried on
MaxHops == 2

\* ------------------------------------------------------- program constants
\* crawler.py:144  len(places_found) == 60
ProviderCap == 60

\* crawler.py:45-55  h3_resolution_to_edge_length_in_meters, in millimetres
EdgeLengthMM ==
    (7 :> 5161200) @@ (8 :> 461354) @@ (9 :> 174375) @@ (10 :> 65907) @@ (11 :> 24910)

Resolutions == DOMAIN EdgeLengthMM

FinestRes == CHOOSE r \in Resolutions : \A s \in Resolutions : s <= r

\* ------------------------------------------------------------------- tiler
Abs(n) == IF n < 0 THEN -n ELSE n

Max2(a, b) == IF a >= b THEN a ELSE b

\* grid distance between the origin and the cell at axial offset <<q, r>>
\* (the six neighbours are +-<<1,0>>, +-<<0,1>>, +-<<1,1>>)
HexDist(c) == Max2(Max2(Abs(c[1]), Abs(c[2])), Abs(c[1] - c[2]))

\* the cell of the next finer resolution that is centred on cell c
\* (aperture 7: multiplication by the Eisenstein integer 3 + w)
CenterChild(c) == <<3 * c[1] - c[2], c[1] + 2 * c[2]>>

\* the cell of the next coarser resolution whose centre child is c
CenterParent(c) == <<(2 * c[1] + c[2]) \div 7, (3 * c[2] - c[1]) \div 7>>

RECURSIVE CellPos(_, _)
\* position of the centre of cell c of resolution res in the finest lattice
CellPos(res, c) ==
    IF res >= FinestRes THEN c ELSE CellPos(res + 1, CenterChild(c))

RECURSIVE PosCell(_, _)
\* the cell of resolution res centred on the finest-lattice position p
PosCell(res, p) ==
    IF res >= FinestRes THEN p ELSE CenterParent(PosCell(res + 1, p))

\* h3.latlng_to_cell for a point that is the centre of a cell
latlng_to_cell(coord, res) == PosCell(res, <<coord[2], coord[3]>>)

\* h3.cell_to_latlng: exact is TRUE when the centroid of a centre child comes
\* out bit-for-bit equal to the centroid of its parent
cell_to_latlng(res, c, exact) ==
    <<IF exact THEN 0 ELSE res, CellPos(res, c)[1], CellPos(res, c)[2]>>

\* the hollow ring of the cells exactly k hops away
DiskOffsets_ring(k) ==
    {c \in (-k .. k) \X (-k .. k) : HexDist(c) = k}

\* the offsets of the filled disk of k hops
DiskOffsets(k) ==
    {c \in (-k .. k) \X (-k .. k) : HexDist(c) <= k}

\* ring by ring from the origin, each ring in a fixed order
OffsetKey(c) == HexDist(c) * 10000 + (c[1] + 50) * 100 + (c[2] + 50)

\* the offsets of S in the order of their keys
SortedOffsets(S) ==
    [i \in 1 .. Cardinality(S) |->
        CHOOSE c \in S : Cardinality({d \in S : OffsetKey(d) < OffsetKey(c)}) = i - 1]

\* the order of the offsets of each disk the calls ask for
DiskOrder == [k \in 0 .. MaxHops + 1 |-> SortedOffsets(DiskOffsets(k))]

\* h3.grid_disk(origin, k)
grid_disk(origin, k) ==
    [i \in 1 .. Len(DiskOrder[k]) |->
        <<origin[1] + DiskOrder[k][i][1], origin[2] + DiskOrder[k][i][2]>>]

\* the quotient rounded up
k_distance_ceil(distance_meters, h_resolution) ==
    (distance_meters * 1000 + EdgeLengthMM[h_resolution] - 1)
        \div EdgeLengthMM[h_resolution]

\* crawler.py:71-73  floor(distance_meters / edge_length)
k_distance(distance_meters, h_resolution) ==
    (distance_meters * 1000) \div EdgeLengthMM[h_resolution]

\* crawler.py:58-81
get_hex_centers(coord, distance_meters, h_resolution, exact) ==
    LET hex_origin == latlng_to_cell(coord, h_resolution)
        hexes == grid_disk(hex_origin, k_distance(distance_meters, h_resolution))
    IN  [i \in 1 .. Len(hexes) |-> cell_to_latlng(h_resolution, hexes[i], exact)]

\* crawler.py:124  math.ceil(edge_length)
hex_radius_of(h_resolution) == (EdgeLengthMM[h_resolution] + 999) \div 1000

\* ---------------------------------------------------------------- provider
\* the point the geocoder returns for the zip code: some point of the cell at
\* the origin, equal to no centroid
GeocodePoint == <<-1, 0, 0>>

\* what places_nearby can answer with: no place at all, or a page that holds
\* one MaxPages-th of the cap.  The same places are found around every tile,
\* and their details differ from one response to the next
PageLen == ProviderCap \div MaxPages

Page(kind, r, p) ==
    IF kind = "full"
    THEN [n \in 1 .. PageLen |-> [place_id |-> n, name |-> <<r, p>>]]
    ELSE <<>>

PageKinds == {"empty", "full"}

\* the command lines of the runs: --resolution and -r
StartOptions ==
    { [resolution |-> 10, r |-> 20], [resolution |-> 10, r |-> 70],
      [resolution |-> 11, r |-> 30], [resolution |-> 12, r |-> 20] }

\* a file of the working directory
Absent == [state |-> "absent", data |-> <<>>]

Truncated == [state |-> "truncated", data |-> <<>>]

\* ------------------------------------------------------------------- state
VARIABLES
    options,          \* parsed command line (crawler.py:174-176)
    centroid_exact,   \* floating point behaviour of h3.cell_to_latlng
    run,              \* which run over the state files this is
    pc,               \* position of the main program
    raised,           \* the exception the run ended with, "none" if none
    file_storage,     \* places_storage_<meta>.json
    file_coords,      \* coord_history_<meta>.json
    place_store,      \* dict_storage: place_id -> place
    crawled_store,    \* seen_locations: set of (lat, lng)
    stack,            \* the active calls of search_radius, outermost first
    next_page_token,  \* get_places: the token of the last response, 0 for None
    places,           \* get_places: the places collected so far
    pages,            \* provider: pages served for the pending query
    saturations,      \* provider: drains answered with exactly the cap so far
    drained,          \* history: tile centres whose drain was started this run
    redrained,        \* history: tile centres whose drain was started twice
    loaded_coords,    \* history: crawled_store as loaded by this run
    loaded_places,    \* history: place_store as loaded by this run
    flushes,          \* history: files completely written by this run's flush
    aborted,          \* history: the tile whose drain an exception cut short
    retry,            \* history: the tile the flushed previous run left aborted
    returned,         \* history: the place_ids the finished drains of this run returned
    response,         \* get_places: places_result, the last answer of places_nearby
    request,          \* history: the page_token the last places_nearby call passed
    slept,            \* history: the sleep of line 107 followed the last places_nearby call
    lost,             \* history: place_ids a cut-short drain had received and the store lacks
    capped,           \* history: tile centres whose drain returned the cap this run
    refined,          \* history: tile centres whose call of line 149 returned this run
    reopen,           \* history: what the flushed previous run left of capped \ refined
    tiler             \* the calls a test of get_hex_centers has made

vars ==
    <<options, centroid_exact, run, pc, raised, file_storage, file_coords,
      place_store, crawled_store, stack, next_page_token, places, pages,
      saturations, drained, redrained, loaded_coords, loaded_places, flushes,
      aborted, retry, returned, response, request, slept, lost, capped, refined,
      reopen, tiler>>

\* drains the provider answers with exactly the cap, over all runs
MaxSaturated == 1

EmptyStore == [id \in {} |-> 0]

\* get_places before its first call: no answer yet
NoResponse == [results |-> <<>>, next_page_token |-> 0]

\* no test of get_hex_centers is under way
NoTiler == [h_resolution |-> 0, coord |-> <<>>, calls |-> <<>>]

Init ==
    /\ options \in StartOptions
    /\ centroid_exact \in BOOLEAN
    /\ run = 1
    /\ pc = "load"
    /\ raised = "none"
    /\ file_storage = Absent
    /\ file_coords = Absent
    /\ place_store = EmptyStore
    /\ crawled_store = {}
    /\ stack = <<>>
    /\ next_page_token = 0
    /\ places = <<>>
    /\ pages = 0
    /\ saturations = 0
    /\ drained = {}
    /\ redrained = {}
    /\ loaded_coords = {}
    /\ loaded_places = EmptyStore
    /\ flushes = 0
    /\ aborted = {}
    /\ retry = {}
    /\ returned = {}
    /\ response = NoResponse
    /\ request = 0
    /\ slept = TRUE
    /\ lost = {}
    /\ capped = {}
    /\ refined = {}
    /\ reopen = {}
    /\ tiler = NoTiler

\* ------------------------------------------------------------- persistence
Range(f) == {f[i] : i \in DOMAIN f}

RECURSIVE list_of_set(_)
\* list(crawled_store): the members in the order the set iterates them
list_of_set(S) ==
    IF S = {} THEN <<>>
    ELSE LET m == CHOOSE c \in S : TRUE
         IN  <<m>> \o list_of_set(S \ {m})

\* json.dump(list(crawled_store)): a tuple is written as an array
json_dump_coords(S) ==
    LET l == list_of_set(S)
    IN  [array |-> [i \in 1 .. Len(l) |-> [array |-> l[i]]]]

\* a load that drops what the file holds
json_load_coords_empty(doc) == {}

\* crawler.py:184  set([tuple(t) for t in json.load(...)])
json_load_coords(doc) == {doc.array[i].array : i \in DOMAIN doc.array}

\* json.dump(place_store): an object keyed by place_id
json_dump_places(store) == [object |-> store]

\* crawler.py:190  json.load(storage.open("r"))
json_load_places(doc) == doc.object

\* ----------------------------------------------------------------- actions
Top == stack[Len(stack)]

SetTop(frame) == [stack EXCEPT ![Len(stack)] = frame]

Frame(coord, h_resolution, radius_m) ==
    [search |-> coord, h_resolution |-> h_resolution, radius_m |-> radius_m,
     hex_radius |-> 0, hex_coords |-> <<>>, i |-> 0, at |-> "enter"]

\* the tile the loop of the innermost call is at
Tile == Top.hex_coords[Top.i]

\* crawler.py:97-109: the innermost call is inside get_places
InDrain == Top.at \in {"drain", "sleep"}

\* an exception leaves every active call and reaches the finally clause
Unwind(exc) ==
    /\ raised' = exc
    /\ stack' = <<>>
    /\ next_page_token' = 0
    /\ places' = <<>>
    /\ pages' = 0
    /\ response' = NoResponse
    /\ request' = 0
    /\ slept' = TRUE
    /\ aborted' = IF InDrain THEN {Tile} ELSE {}
    /\ lost' = IF InDrain
               THEN {places[n].place_id : n \in DOMAIN places} \ DOMAIN place_store
               ELSE {}
    /\ retry' = {}
    /\ reopen' = {}
    /\ pc' = "flush_storage"

\* an exception outside the try statement ends the process
Die(exc) ==
    /\ raised' = exc
    /\ pc' = "exited"

\* crawler.py:182-193: both state files are read, an absent one as empty
Load ==
    /\ pc = "load"
    /\ file_coords.state # "truncated"
    /\ file_storage.state # "truncated"
    /\ crawled_store' =
           IF file_coords.state = "ok" THEN json_load_coords(file_coords.data) ELSE {}
    /\ place_store' =
           IF file_storage.state = "ok" THEN json_load_places(file_storage.data)
           ELSE EmptyStore
    /\ loaded_coords' = crawled_store'
    /\ loaded_places' = place_store'
    /\ pc' = "geocode"
    /\ UNCHANGED <<tiler, slept, request, response, lost, capped, refined, reopen,
                   options, centroid_exact, run, raised, file_storage, file_coords,
                   stack, next_page_token, places, pages, saturations, drained,
                   redrained, flushes,
                   aborted, returned, retry>>

\* crawler.py:184, 190: json.load of a file that holds no complete document
LoadFails ==
    /\ pc = "load"
    /\ \/ file_coords.state = "truncated"
       \/ file_storage.state = "truncated"
    /\ Die("JSONDecodeError")
    /\ UNCHANGED <<tiler, slept, request, response, lost, capped, refined, reopen,
                   options, centroid_exact, run, file_storage, file_coords,
                   place_store, crawled_store, stack, next_page_token, places, pages,
                   saturations, drained, redrained, loaded_coords, loaded_places,
                   flushes,
                   aborted, returned, retry>>

\* crawler.py:196, 198-199: the zip code resolves and search_radius is called
Geocode ==
    /\ pc = "geocode"
    /\ pc' = "crawl"
    /\ stack' = <<Frame(GeocodePoint, options.resolution, options.r)>>
    /\ UNCHANGED <<tiler, slept, request, response, lost, capped, refined, reopen,
                   options, centroid_exact, run, raised, file_storage, file_coords,
                   place_store, crawled_store, next_page_token, places, pages,
                   saturations, drained, redrained, loaded_coords, loaded_places,
                   flushes,
                   aborted, returned, retry>>

\* crawler.py:86-87: no geocoding result; line 196 is outside the try statement
GeocodeFails ==
    /\ pc = "geocode"
    /\ Die("Invalid ZIP code.")
    /\ UNCHANGED <<tiler, slept, request, response, lost, capped, refined, reopen,
                   options, centroid_exact, run, file_storage, file_coords,
                   place_store, crawled_store, stack, next_page_token, places, pages,
                   saturations, drained, redrained, loaded_coords, loaded_places,
                   flushes,
                   aborted, returned, retry>>

\* crawler.py:123-126
Enter ==
    /\ pc = "crawl"
    /\ Top.at = "enter"
    /\ Top.h_resolution \in Resolutions
    /\ stack' = SetTop([Top EXCEPT
           !.hex_radius = hex_radius_of(Top.h_resolution),
           !.hex_coords = get_hex_centers(Top.search, Top.radius_m,
                                          Top.h_resolution, centroid_exact),
           !.i = 1,
           !.at = "loop"])
    /\ UNCHANGED <<tiler, slept, request, response, lost, capped, refined, reopen,
                   options, centroid_exact, run, pc, raised, file_storage,
                   file_coords, place_store, crawled_store, next_page_token, places,
                   pages, saturations, drained, redrained, loaded_coords,
                   loaded_places, flushes,
                   aborted, returned, retry>>

\* an unsupported resolution falls back to the finest one of the table
EnterFallback ==
    /\ pc = "crawl"
    /\ Top.at = "enter"
    /\ Top.h_resolution \notin Resolutions
    /\ stack' = SetTop([Top EXCEPT
           !.hex_radius = hex_radius_of(FinestRes),
           !.hex_coords = get_hex_centers(Top.search, Top.radius_m, FinestRes,
                                          centroid_exact),
           !.i = 1,
           !.at = "loop"])
    /\ UNCHANGED <<tiler, slept, request, response, lost, capped, refined, reopen,
                   options, centroid_exact, run, pc, raised, file_storage,
                   file_coords, place_store, crawled_store, next_page_token, places,
                   pages, saturations, drained, redrained, loaded_coords,
                   loaded_places, flushes, aborted, returned, retry>>

\* crawler.py:124: the table has no entry for the resolution
EnterKeyError ==
    /\ pc = "crawl"
    /\ Top.at = "enter"
    /\ Top.h_resolution \notin Resolutions
    /\ Unwind("KeyError")
    /\ UNCHANGED <<tiler, capped, refined,
                   options, centroid_exact, run, file_storage, file_coords,
                   place_store, crawled_store, saturations, drained, redrained,
                   loaded_coords, loaded_places, flushes,
                   returned>>

\* a membership test that never finds the tile
seen_never(tile) == FALSE

\* crawler.py:130
seen(tile) == tile \in crawled_store

\* crawler.py:128-132: the tile is in seen_locations
Skip ==
    /\ pc = "crawl"
    /\ Top.at = "loop"
    /\ Top.i <= Len(Top.hex_coords)
    /\ seen(Tile)
    /\ stack' = SetTop([Top EXCEPT !.i = Top.i + 1])
    /\ UNCHANGED <<tiler, slept, request, response, lost, capped, refined, reopen,
                   options, centroid_exact, run, pc, raised, file_storage,
                   file_coords, place_store, crawled_store, next_page_token, places,
                   pages, saturations, drained, redrained, loaded_coords,
                   loaded_places, flushes,
                   aborted, returned, retry>>

\* the tile is marked when its drain starts
StartDrain_MarkFirst ==
    /\ pc = "crawl"
    /\ Top.at = "loop"
    /\ Top.i <= Len(Top.hex_coords)
    /\ ~seen(Tile)
    /\ stack' = SetTop([Top EXCEPT !.at = "drain"])
    /\ next_page_token' = 0
    /\ places' = <<>>
    /\ pages' = 0
    /\ response' = NoResponse
    /\ request' = 0
    /\ drained' = drained \cup {Tile}
    /\ redrained' = IF Tile \in drained THEN redrained \cup {Tile} ELSE redrained
    /\ crawled_store' = crawled_store \cup {Tile}
    /\ UNCHANGED <<tiler, slept, lost, capped, refined, reopen,
                   options, centroid_exact, run, pc, raised, file_storage,
                   file_coords, place_store, saturations, loaded_coords,
                   loaded_places, flushes, aborted, returned, retry>>

\* crawler.py:134, 95-96: get_places is called for the tile
StartDrain ==
    /\ pc = "crawl"
    /\ Top.at = "loop"
    /\ Top.i <= Len(Top.hex_coords)
    /\ ~seen(Tile)
    /\ stack' = SetTop([Top EXCEPT !.at = "drain"])
    /\ next_page_token' = 0
    /\ places' = <<>>
    /\ pages' = 0
    /\ response' = NoResponse
    /\ request' = 0
    /\ drained' = drained \cup {Tile}
    /\ redrained' = IF Tile \in drained THEN redrained \cup {Tile} ELSE redrained
    /\ UNCHANGED <<tiler, slept, lost, capped, refined, reopen,
                   options, centroid_exact, run, pc, raised, file_storage,
                   file_coords, place_store, crawled_store, saturations,
                   loaded_coords, loaded_places, flushes,
                   aborted, returned, retry>>

\* a call that never passes a token
page_token_none == NoResponse.next_page_token

\* crawler.py:102: page_token=next_page_token
page_token == next_page_token

\* the sleep is taken only when another page is to be asked for
after_call_sleep_if_token(token) == IF token # 0 THEN "sleep" ELSE "fetched"

\* crawler.py:107: the sleep follows every call, before the test of line 108
after_call(token) == "sleep"

\* every page is stored as soon as it is received
PlacesNearby_MergeEachPage(kind, more) ==
    /\ pc = "crawl"
    /\ Top.at = "drain"
    /\ more => (kind = "full" /\ pages + 1 < MaxPages)
    /\ LET places_result == [results |-> Page(kind, run, pages + 1),
                             next_page_token |-> IF more THEN pages + 1 ELSE 0]
           all == places \o places_result.results
           cap == ~more /\ Len(all) = ProviderCap
       IN  /\ cap => saturations < MaxSaturated
           /\ saturations' = IF cap THEN saturations + 1 ELSE saturations
           /\ request' = page_token
           /\ response' = places_result
           /\ next_page_token' = places_result.next_page_token
           /\ places' = all
           /\ place_store' = [id \in DOMAIN place_store \cup
                                     {all[n].place_id : n \in DOMAIN all} |->
                                 IF id \in DOMAIN place_store THEN place_store[id]
                                 ELSE CHOOSE pl \in Range(all) : pl.place_id = id]
    /\ pages' = pages + 1
    /\ slept' = FALSE
    /\ stack' = SetTop([Top EXCEPT !.at = after_call(next_page_token')])
    /\ UNCHANGED <<tiler, lost, capped, refined, reopen,
                   options, centroid_exact, run, pc, raised, file_storage,
                   file_coords, crawled_store, drained, redrained,
                   loaded_coords, loaded_places, flushes, aborted, retry, returned>>

\* crawler.py:98-105: one places_nearby call of the drain, with the token of
\* the answer before it; the provider answers with a page and maybe a token,
\* the token is kept and the page is appended to places
PlacesNearby(kind, more) ==
    /\ pc = "crawl"
    /\ Top.at = "drain"
    /\ more => (kind = "full" /\ pages + 1 < MaxPages)
    /\ LET places_result == [results |-> Page(kind, run, pages + 1),
                             next_page_token |-> IF more THEN pages + 1 ELSE 0]
           all == places \o places_result.results
           cap == ~more /\ Len(all) = ProviderCap
       IN  /\ cap => saturations < MaxSaturated
           /\ saturations' = IF cap THEN saturations + 1 ELSE saturations
           /\ request' = page_token
           /\ response' = places_result
           /\ next_page_token' = places_result.next_page_token
           /\ places' = all
    /\ pages' = pages + 1
    /\ slept' = FALSE
    /\ stack' = SetTop([Top EXCEPT !.at = after_call(next_page_token')])
    /\ UNCHANGED <<tiler, lost, capped, refined, reopen,
                   options, centroid_exact, run, pc, raised, file_storage,
                   file_coords, place_store, crawled_store, drained, redrained,
                   loaded_coords, loaded_places, flushes, aborted, retry, returned>>

\* crawler.py:107-112: the sleep after the call; with a token the loop calls
\* again, without one get_places returns places to line 134
Sleep ==
    /\ pc = "crawl"
    /\ Top.at = "sleep"
    /\ slept' = TRUE
    /\ IF next_page_token # 0
       THEN /\ stack' = SetTop([Top EXCEPT !.at = "drain"])
            /\ UNCHANGED <<pages, response, request, returned, capped>>
       ELSE /\ stack' = SetTop([Top EXCEPT !.at = "fetched"])
            /\ pages' = 0
            /\ response' = NoResponse
            /\ request' = 0
            /\ returned' = returned \cup {places[n].place_id : n \in DOMAIN places}
            /\ capped' = IF Len(places) = ProviderCap THEN capped \cup {Tile} ELSE capped
    /\ UNCHANGED <<tiler, lost, refined, reopen,
                   options, centroid_exact, run, pc, raised, file_storage,
                   file_coords, place_store, crawled_store, next_page_token, places,
                   saturations, drained, redrained, loaded_coords, loaded_places,
                   flushes, aborted, retry>>

\* crawler.py:98: places_nearby raises (network, quota, server error)
PlacesNearbyRaises ==
    /\ pc = "crawl"
    /\ Top.at = "drain"
    /\ Unwind("ApiError")
    /\ UNCHANGED <<tiler, capped, refined,
                   options, centroid_exact, run, file_storage, file_coords,
                   place_store, crawled_store, saturations, drained, redrained,
                   loaded_coords, loaded_places, flushes,
                   returned>>

\* a merge that stores every place it is given: the last one wins
merge_places_overwrite(store, found) ==
    LET ids == {found[n].place_id : n \in DOMAIN found}
        last(id) == CHOOSE n \in DOMAIN found :
                        /\ found[n].place_id = id
                        /\ \A m \in DOMAIN found : found[m].place_id = id => m <= n
    IN  [id \in DOMAIN store \cup ids |->
            IF id \in ids THEN found[last(id)] ELSE store[id]]

\* crawler.py:135-142: the loop stores a place unless its place_id is a key
\* already, so a key of the store keeps its record and a new key gets the
\* first place of the list that carries it
merge_places(store, found) ==
    LET ids == {found[n].place_id : n \in DOMAIN found}
        first(id) == CHOOSE n \in DOMAIN found :
                        /\ found[n].place_id = id
                        /\ \A m \in DOMAIN found : found[m].place_id = id => n <= m
    IN  [id \in DOMAIN store \cup ids |->
            IF id \in DOMAIN store THEN store[id] ELSE found[first(id)]]

\* crawler.py:135-142
Merge ==
    /\ pc = "crawl"
    /\ Top.at = "fetched"
    /\ place_store' = merge_places(place_store, places)
    /\ stack' = SetTop([Top EXCEPT !.at = "merged"])
    /\ UNCHANGED <<tiler, slept, request, response, lost, capped, refined, reopen,
                   options, centroid_exact, run, pc, raised, file_storage,
                   file_coords, crawled_store, next_page_token, places, pages,
                   saturations, drained, redrained, loaded_coords, loaded_places,
                   flushes,
                   aborted, returned, retry>>

\* a saturation test that needs more than the cap
saturated_above(found) == Len(found) > ProviderCap

\* crawler.py:144
saturated(found) == Len(found) = ProviderCap

\* the call of line 149 made with the caller's resolution
next_resolution_same(h_resolution) == h_resolution

\* crawler.py:152  h_resolution + 1
next_resolution(h_resolution) == h_resolution + 1

\* the tile is added to seen_locations before the call of line 149
Recurse_MarkFirst ==
    /\ pc = "crawl"
    /\ Top.at = "merged"
    /\ saturated(places)
    /\ stack' = Append(SetTop([Top EXCEPT !.at = "recursing"]),
                       Frame(Tile, next_resolution(Top.h_resolution), Top.hex_radius))
    /\ places' = <<>>
    /\ crawled_store' = crawled_store \cup {Tile}
    /\ UNCHANGED <<tiler, slept, request, response, lost, capped, refined, reopen,
                   options, centroid_exact, run, pc, raised, file_storage,
                   file_coords, place_store, next_page_token, pages,
                   saturations, drained, redrained, loaded_coords, loaded_places,
                   flushes,
                   aborted, returned, retry>>

\* crawler.py:144-156: the tile returned the cap, search_radius is called on it
Recurse ==
    /\ pc = "crawl"
    /\ Top.at = "merged"
    /\ saturated(places)
    /\ stack' = Append(SetTop([Top EXCEPT !.at = "recursing"]),
                       Frame(Tile, next_resolution(Top.h_resolution), Top.hex_radius))
    /\ places' = <<>>
    /\ UNCHANGED <<tiler, slept, request, response, lost, capped, refined, reopen,
                   options, centroid_exact, run, pc, raised, file_storage,
                   file_coords, place_store, crawled_store, next_page_token, pages,
                   saturations, drained, redrained, loaded_coords, loaded_places,
                   flushes,
                   aborted, returned, retry>>

\* the loop goes on without adding the tile to seen_locations
MarkNothing ==
    /\ pc = "crawl"
    /\ \/ Top.at = "merged" /\ ~saturated(places)
       \/ Top.at = "mark"
    /\ stack' = SetTop([Top EXCEPT !.i = Top.i + 1, !.at = "loop"])
    /\ places' = <<>>
    /\ UNCHANGED <<tiler, slept, request, response, lost, capped, refined, reopen,
                   options, centroid_exact, run, pc, raised, file_storage,
                   file_coords, place_store, crawled_store, next_page_token, pages,
                   saturations, drained, redrained, loaded_coords, loaded_places,
                   flushes, aborted, returned, retry>>

\* the set is replaced by the tile
seen_add_only(seen_locations, tile) == {tile}

\* crawler.py:158  seen_locations.add((hex_lat, hex_lng))
seen_add(seen_locations, tile) == seen_locations \cup {tile}

\* crawler.py:158, reached past the if of line 144 or after the call of 149
Mark ==
    /\ pc = "crawl"
    /\ \/ Top.at = "merged" /\ ~saturated(places)
       \/ Top.at = "mark"
    /\ crawled_store' = seen_add(crawled_store, Tile)
    /\ stack' = SetTop([Top EXCEPT !.i = Top.i + 1, !.at = "loop"])
    /\ places' = <<>>
    /\ UNCHANGED <<tiler, slept, request, response, lost, capped, refined, reopen,
                   options, centroid_exact, run, pc, raised, file_storage,
                   file_coords, place_store, next_page_token, pages, saturations,
                   drained, redrained, loaded_coords, loaded_places, flushes,
                   aborted, returned, retry>>

\* crawler.py:128: the loop of a recursive call ends, its caller goes on
Return ==
    /\ pc = "crawl"
    /\ Top.at = "loop"
    /\ Top.i > Len(Top.hex_coords)
    /\ Len(stack) > 1
    /\ stack' = [SubSeq(stack, 1, Len(stack) - 1)
                    EXCEPT ![Len(stack) - 1].at = "mark"]
    /\ refined' = refined \cup {Top.search}
    /\ UNCHANGED <<tiler, slept, request, response, lost, capped, reopen,
                   options, centroid_exact, run, pc, raised, file_storage,
                   file_coords, place_store, crawled_store, next_page_token, places,
                   pages, saturations, drained, redrained, loaded_coords,
                   loaded_places, flushes,
                   aborted, returned, retry>>

\* crawler.py:128, 209: the loop of the top-level call ends
Finish ==
    /\ pc = "crawl"
    /\ Top.at = "loop"
    /\ Top.i > Len(Top.hex_coords)
    /\ Len(stack) = 1
    /\ stack' = <<>>
    /\ aborted' = {}
    /\ lost' = {}
    /\ retry' = {}
    /\ reopen' = {}
    /\ pc' = "flush_storage"
    /\ UNCHANGED <<tiler, slept, request, response, capped, refined,
                   options, centroid_exact, run, raised, file_storage, file_coords,
                   place_store, crawled_store, next_page_token, places, pages,
                   saturations, drained, redrained, loaded_coords, loaded_places,
                   flushes,
                   returned>>

\* crawler.py:207-208: Ctrl-C while search_radius runs
KeyboardInterrupt ==
    /\ pc = "crawl"
    /\ Unwind("KeyboardInterrupt")
    /\ UNCHANGED <<tiler, capped, refined,
                   options, centroid_exact, run, file_storage, file_coords,
                   place_store, crawled_store, saturations, drained, redrained,
                   loaded_coords, loaded_places, flushes,
                   returned>>

\* crawler.py:182-196: Ctrl-C before the try statement is entered
EarlyInterrupt ==
    /\ pc \in {"load", "geocode"}
    /\ Die("KeyboardInterrupt")
    /\ UNCHANGED <<tiler, slept, request, response, lost, capped, refined, reopen,
                   options, centroid_exact, run, file_storage, file_coords,
                   place_store, crawled_store, stack, next_page_token, places, pages,
                   saturations, drained, redrained, loaded_coords, loaded_places,
                   flushes,
                   aborted, returned, retry>>

\* crawler.py:210-212: the storage file is opened for writing, which empties
\* it, and place_store is dumped into it
FlushStorage ==
    /\ pc = "flush_storage"
    /\ file_storage' = [state |-> "ok", data |-> json_dump_places(place_store)]
    /\ flushes' = flushes + 1
    /\ pc' = "flush_coords"
    /\ UNCHANGED <<tiler, slept, request, response, lost, capped, refined, reopen,
                   options, centroid_exact, run, raised, file_coords, place_store,
                   crawled_store, stack, next_page_token, places, pages, saturations,
                   drained, redrained, loaded_coords, loaded_places, aborted,
                   returned, retry>>

\* crawler.py:214-218: the same for the visited list, then the process ends
FlushCoords ==
    /\ pc = "flush_coords"
    /\ file_coords' = [state |-> "ok", data |-> json_dump_coords(crawled_store)]
    /\ flushes' = flushes + 1
    /\ pc' = "exited"
    /\ UNCHANGED <<tiler, slept, request, response, lost, capped, refined, reopen,
                   options, centroid_exact, run, raised, file_storage, place_store,
                   crawled_store, stack, next_page_token, places, pages, saturations,
                   drained, redrained, loaded_coords, loaded_places, aborted,
                   returned, retry>>

FlushPcs == {"flush_storage", "flush_coords"}

\* crawler.py:209-218: the process is stopped inside the finally clause (a
\* second Ctrl-C, a kill, a power loss), before the file at hand was opened
\* or, when opened is TRUE, after open("w") emptied it and before json.dump
\* completed
FlushAbort(opened) ==
    /\ pc \in FlushPcs
    /\ file_storage' =
           IF pc = "flush_storage" /\ opened THEN Truncated ELSE file_storage
    /\ file_coords' =
           IF pc = "flush_coords" /\ opened THEN Truncated ELSE file_coords
    /\ Die("killed")
    /\ UNCHANGED <<tiler, slept, request, response, lost, capped, refined, reopen,
                   options, centroid_exact, run, place_store, crawled_store, stack,
                   next_page_token, places, pages, saturations, drained, redrained,
                   loaded_coords, loaded_places, flushes, aborted, returned, retry>>

\* the program is started again with the same command line and state files
Restart ==
    /\ pc = "exited"
    /\ run < MaxRuns
    /\ run' = run + 1
    /\ pc' = "load"
    /\ raised' = "none"
    /\ place_store' = EmptyStore
    /\ crawled_store' = {}
    /\ drained' = {}
    /\ redrained' = {}
    /\ loaded_coords' = {}
    /\ loaded_places' = EmptyStore
    /\ flushes' = 0
    /\ retry' = IF flushes = 2 THEN aborted ELSE {}
    /\ reopen' = IF flushes = 2 THEN (capped \ refined) \ redrained ELSE {}
    /\ aborted' = {}
    /\ returned' = {}
    /\ response' = NoResponse
    /\ request' = 0
    /\ slept' = TRUE
    /\ lost' = {}
    /\ capped' = {}
    /\ refined' = {}
    /\ UNCHANGED <<tiler,
                   options, centroid_exact, file_storage, file_coords, stack,
                   next_page_token, places, pages, saturations>>

Next ==
    \/ Load
    \/ LoadFails
    \/ Geocode
    \/ GeocodeFails
    \/ Enter
    \/ EnterKeyError
    \/ Skip
    \/ StartDrain
    \/ \E kind \in PageKinds, more \in BOOLEAN : PlacesNearby(kind, more)
    \/ Sleep
    \/ PlacesNearbyRaises
    \/ Merge
    \/ Recurse
    \/ Mark
    \/ Return
    \/ Finish
    \/ KeyboardInterrupt
    \/ EarlyInterrupt
    \/ FlushStorage
    \/ FlushCoords
    \/ \E opened \in BOOLEAN : FlushAbort(opened)
    \/ Restart

Spec == Init /\ [][Next]_vars

\* the statements of search_radius and get_places are executed one after the
\* other, and places_nearby answers (or raises); interrupts, failures, kills
\* and restarts may or may not come
Progress ==
    /\ WF_vars(Enter)
    /\ WF_vars(EnterKeyError)
    /\ WF_vars(Skip)
    /\ WF_vars(StartDrain)
    /\ WF_vars(\E kind \in PageKinds, more \in BOOLEAN : PlacesNearby(kind, more))
    /\ WF_vars(Sleep)
    /\ WF_vars(Merge)
    /\ WF_vars(Recurse)
    /\ WF_vars(Mark)
    /\ WF_vars(Return)
    /\ WF_vars(Finish)

SpecFair == Spec /\ Progress

\* ------------------------------------------------- get_hex_centers alone
\* calls made on one centre and resolution
MaxCalls == 2

\* the cells whose centres are passed as (lat, lng)
TilerCells == {<<0, 0>>, <<1, 0>>, <<-1, 2>>}

\* the distances passed: the whole metres just below and just above each
\* multiple of the edge length, from 0 on
TilerRadii(h_resolution) ==
    {(j * EdgeLengthMM[h_resolution]) \div 1000 + d : j \in 0 .. MaxHops, d \in {0, 1}}

\* get_hex_centers is called on the centre of a cell of the resolution asked
\* for or of the resolution above it (as line 149 does), or on the geocoded
\* point
InitTiler ==
    /\ centroid_exact \in BOOLEAN
    /\ \E r \in Resolutions, c \in TilerCells, up \in {0, 1}, geo \in BOOLEAN :
           /\ r - up \in Resolutions
           /\ geo => (c = <<0, 0>> /\ up = 0)
           /\ tiler = [h_resolution |-> r,
                       coord |-> IF geo THEN GeocodePoint
                                 ELSE cell_to_latlng(r - up, c, centroid_exact),
                       calls |-> <<>>]
    /\ options = [resolution |-> tiler.h_resolution, r |-> 0]
    /\ run = 1
    /\ pc = "tiler"
    /\ raised = "none"
    /\ file_storage = Absent
    /\ file_coords = Absent
    /\ place_store = EmptyStore
    /\ crawled_store = {}
    /\ stack = <<>>
    /\ next_page_token = 0
    /\ places = <<>>
    /\ pages = 0
    /\ saturations = 0
    /\ drained = {}
    /\ redrained = {}
    /\ loaded_coords = {}
    /\ loaded_places = EmptyStore
    /\ flushes = 0
    /\ aborted = {}
    /\ retry = {}
    /\ returned = {}
    /\ response = NoResponse
    /\ request = 0
    /\ slept = TRUE
    /\ lost = {}
    /\ capped = {}
    /\ refined = {}
    /\ reopen = {}

\* crawler.py:58-81: one call, its argument and its result kept
TilerCall(distance_meters) ==
    /\ pc = "tiler"
    /\ Len(tiler.calls) < MaxCalls
    /\ tiler' = [tiler EXCEPT !.calls = Append(@,
           [distance_meters |-> distance_meters,
            hex_centroids |-> get_hex_centers(tiler.coord, distance_meters,
                                              tiler.h_resolution, centroid_exact)])]
    /\ UNCHANGED <<options, centroid_exact, run, pc, raised, file_storage,
                   file_coords, place_store, crawled_store, stack, next_page_token,
                   places, pages, saturations, drained, redrained, loaded_coords,
                   loaded_places, flushes, aborted, retry, returned, response,
                   request, slept, lost, capped, refined, reopen>>

NextTiler ==
    \E distance_meters \in TilerRadii(tiler.h_resolution) : TilerCall(distance_meters)

SpecTiler == InitTiler /\ [][NextTiler]_vars

\* ------------------------------------------------------------------ claims
\* the tile centres the tiler emits for the top-level call of this command line
TopTilesOf ==
    [o \in StartOptions, exact \in BOOLEAN |->
        IF o.resolution \in Resolutions
        THEN Range(get_hex_centers(GeocodePoint, o.r, o.resolution, exact))
        ELSE {}]

TopTiles == TopTilesOf[options, centroid_exact]

\* what the two state files hold, when they hold a complete document
FileCoords == json_load_coords(file_coords.data)

FilePlaces == json_load_places(file_storage.data)

\* C1: a run whose loaded visited set holds every tile centre of the top-level
\* call starts no drain (so issues no provider call), never recurses, keeps the
\* entity store as loaded, and flushes that same store
C1_IdempotentRerun ==
    (pc # "load" /\ TopTiles # {} /\ TopTiles \subseteq loaded_coords) =>
        /\ drained = {}
        /\ Len(stack) <= 1
        /\ pc = "crawl" => Top.at \in {"enter", "loop"}
        /\ place_store = loaded_places
        /\ (pc = "exited" /\ flushes = 2) => FilePlaces = loaded_places

C1_Witness ==
    /\ run = 2
    /\ pc = "exited"
    /\ raised = "none"
    /\ flushes = 2
    /\ Cardinality(TopTiles) > 1
    /\ TopTiles \subseteq loaded_coords
    /\ loaded_places # EmptyStore

\* C2: after a run that was cut short and flushed, the next run loads exactly
\* the flushed visited set, starts no drain for a coordinate in it, and when
\* it completes it has drained every other top-level tile: of N top-level
\* tiles with k visited, those k are skipped and the N-k others are queried
C2_Resumption ==
    /\ (pc = "exited" /\ flushes = 2) => FileCoords = crawled_store
    /\ (pc \in {"geocode", "crawl"} /\ file_coords.state = "ok") =>
           loaded_coords = FileCoords
    /\ drained \cap loaded_coords = {}
    /\ (pc = "exited" /\ raised = "none") =>
           TopTiles \cap drained = TopTiles \ loaded_coords

C2_Witness ==
    /\ run = 2
    /\ pc = "exited"
    /\ raised = "none"
    /\ Cardinality(TopTiles) = 7
    /\ Cardinality(TopTiles \cap loaded_coords) = 3
    /\ Cardinality(TopTiles \cap drained) = 4

\* C3: whenever the process ends after the state was loaded, by completion,
\* interruption or a fatal error (a kill inside the flush aside), both files
\* have been flushed
C3_FlushOnEveryExit ==
    [][(pc # "load" /\ pc # "exited" /\ pc' = "exited" /\ raised' # "killed")
           => flushes' = 2]_vars

\* the calls of search_radius below the innermost one wait in the call of
\* line 149: each is at its saturated tile, and the call above it works on
\* that tile's centre, one resolution finer, with that tile's query radius
CallChain ==
    pc = "crawl" =>
        \A d \in 1 .. Len(stack) - 1 :
            /\ stack[d].at = "recursing"
            /\ stack[d + 1].search = stack[d].hex_coords[stack[d].i]
            /\ stack[d + 1].h_resolution = stack[d].h_resolution + 1
            /\ stack[d + 1].radius_m = stack[d].hex_radius

\* C4: a drain that returned exactly the cap is followed by the call of
\* search_radius on the tile's centre at resolution + 1 with the tile's query
\* radius; nothing else starts a call; and while that call is active its
\* caller stays at the saturated tile, so no sibling is fetched before the
\* call has returned (or an exception has ended the crawl)
C4_SaturationRecursion ==
    /\ []CallChain
    /\ [][(pc = "crawl" /\ pc' = "crawl") =>
            /\ (Top.at = "merged" /\ Len(places) = ProviderCap) =>
                   stack' = Append(SetTop([Top EXCEPT !.at = "recursing"]),
                                   Frame(Tile, Top.h_resolution + 1, Top.hex_radius))
            /\ Len(stack') > Len(stack) =>
                   (Top.at = "merged" /\ Len(places) = ProviderCap)
            /\ \A d \in 1 .. Len(stack) - 1 :
                   /\ Len(stack') >= d
                   /\ Len(stack') > d => stack'[d] = stack[d]
                   /\ Len(stack') = d =>
                          /\ stack'[d] = [stack[d] EXCEPT !.at = "mark"]
                          /\ Top.i > Len(Top.hex_coords)
            /\ drained' # drained =>
                   /\ Len(stack') = Len(stack)
                   /\ drained' = drained \cup {Tile}
                   /\ Top.at = "loop"]_vars

\* the recursion on the first top-level tile has returned and the second
\* top-level tile is being fetched
C4_Witness ==
    /\ pc = "crawl"
    /\ Len(stack) = 1
    /\ Top.i = 2
    /\ Top.at = "drain"
    /\ Cardinality(crawled_store) >= 19
    /\ run = 1

\* C5: a call of search_radius with a resolution outside the table raises
\* before it generates a tile or fetches anything; the exception leaves every
\* active call at once, nothing is fetched after it in that run, and no call
\* ever works at a resolution the table does not hold
C5_ResolutionOverflow ==
    /\ [](pc = "crawl" =>
            \A d \in 1 .. Len(stack) :
                stack[d].at # "enter" => stack[d].h_resolution \in Resolutions)
    /\ [](raised = "KeyError" => (stack = <<>> /\ pc \in FlushPcs \cup {"exited"}))
    /\ [][(pc = "crawl" /\ Top.at = "enter" /\ Top.h_resolution \notin Resolutions) =>
            /\ raised' \in {"KeyError", "KeyboardInterrupt"}
            /\ stack' = <<>>
            /\ pc' = "flush_storage"
            /\ drained' = drained
            /\ crawled_store' = crawled_store]_vars
    /\ [][(raised = "KeyError" /\ run' = run) =>
            /\ raised' \in {"KeyError", "killed"}
            /\ drained' = drained
            /\ crawled_store' = crawled_store]_vars

\* a tile of resolution 11 saturated and the call at resolution 12 ended the run
C5_Witness ==
    /\ pc = "exited"
    /\ raised = "KeyError"
    /\ options.resolution = FinestRes
    /\ Cardinality(drained) = 2
    /\ flushes = 2

\* C6: within a run a key of the entity store keeps its record at every step,
\* and the merge of a drained tile adds exactly the new identifiers and raises
\* nothing
C6_FirstSeenWins ==
    [][(run' = run) =>
        /\ \A id \in DOMAIN place_store :
               /\ id \in DOMAIN place_store'
               /\ place_store'[id] = place_store[id]
        /\ (pc = "crawl" /\ Top.at = "fetched" /\ pc' = "crawl") =>
               /\ raised' = "none"
               /\ Top'.at = "merged"
               /\ DOMAIN place_store' =
                      DOMAIN place_store \cup {places[n].place_id : n \in DOMAIN places}]_vars

\* a tile was merged whose places are in the store, loaded from the previous
\* run, under other details
C6_Witness ==
    /\ run = 2
    /\ pc = "crawl"
    /\ Top.at = "merged"
    /\ loaded_places # EmptyStore
    /\ \E n \in DOMAIN places :
           /\ places[n].place_id \in DOMAIN loaded_places
           /\ place_store[places[n].place_id] # places[n]
           /\ place_store[places[n].place_id] = loaded_places[places[n].place_id]

\* C7: a tile is not in the visited set while its drain is under way or just
\* finished; when an exception cuts the drain short the flushed visited set
\* lacks the tile, the next run does not load it, and the next run fetches
\* the tile when its loop comes to it
C7_MarkAfterFetch ==
    /\ (pc = "crawl" /\ Top.at \in {"drain", "sleep", "fetched"}) =>
           Tile \notin crawled_store
    /\ (pc = "exited" /\ flushes = 2) => aborted \cap FileCoords = {}
    /\ retry \cap loaded_coords = {}
    /\ (pc = "crawl" /\ Top.at = "loop" /\ Top.i <= Len(Top.hex_coords)
           /\ Tile \in retry /\ Tile \notin drained) => Tile \notin crawled_store
    /\ (pc = "crawl" /\ Len(stack) = 1 /\ Top.at = "loop"
           /\ Top.i > Len(Top.hex_coords)) => (retry \cap TopTiles) \subseteq drained

\* the run after the interrupted one fetches the tile again
C7_Witness ==
    /\ run = 2
    /\ pc = "crawl"
    /\ Top.at = "drain"
    /\ Tile \in retry
    /\ Top.i > 1

\* number of tiles of the filled disk of k hops
DiskSize(k) == 1 + 3 * k * (k + 1)

\* C8: a run that starts from nothing and in which no drain returns the cap
\* ends with every top-level tile drained once, the visited set equal to the
\* N tile centres, every returned place stored under its identifier, and both
\* files holding that state
C8_NonSaturatingRun ==
    (pc = "exited" /\ raised = "none" /\ saturations = 0
        /\ loaded_coords = {} /\ loaded_places = EmptyStore) =>
        /\ drained = TopTiles
        /\ redrained = {}
        /\ crawled_store = TopTiles
        /\ Cardinality(crawled_store) =
               DiskSize(k_distance(options.r, options.resolution))
        /\ DOMAIN place_store = returned
        /\ \A id \in DOMAIN place_store : place_store[id].place_id = id
        /\ flushes = 2
        /\ file_storage.state = "ok"
        /\ FilePlaces = place_store
        /\ file_coords.state = "ok"
        /\ FileCoords = crawled_store

C8_Witness ==
    /\ pc = "exited"
    /\ raised = "none"
    /\ saturations = 0
    /\ loaded_coords = {}
    /\ loaded_places = EmptyStore
    /\ Cardinality(TopTiles) = 7
    /\ place_store # EmptyStore

\* C9: when the provider call of one tile fails, the crawl goes on with the
\* other tiles of the grid, so at the end of the run every other top-level
\* tile has been visited
C9_FailureIsolation ==
    (pc = "exited" /\ raised = "ApiError" /\ flushes = 2) =>
        (TopTiles \ aborted) \subseteq crawled_store

\* C10: a process stopped inside the flush leaves each state file holding a
\* complete document, the previous one or the new one
C10_AtomicFlush ==
    (pc = "exited" /\ raised = "killed") =>
        /\ file_storage.state # "truncated"
        /\ file_coords.state # "truncated"

\* C11: a places_nearby call is made only when the sleep has followed the
\* call before it in the run, whatever lies between the two calls (the next
\* page, the next tile, a call of search_radius or its return); after a call
\* nothing happens in the crawl before its sleep
C11_RateLimitGate ==
    /\ [](~slept => (pc = "crawl" /\ Top.at = "sleep"))
    /\ [][(pages' = pages + 1) => (slept /\ ~slept')]_vars
    /\ [][(~slept /\ pc' = "crawl") => (slept' /\ pages' # pages + 1)]_vars

\* the first call after a call of search_radius has returned to the top level
C11_Witness ==
    /\ pc = "crawl"
    /\ Len(stack) = 1
    /\ refined # {}
    /\ Top.at = "sleep"
    /\ ~slept
    /\ pages = 1

\* C12: the first call of a drain passes no token and starts from no places;
\* a later call is made only after an answer with a token and passes that
\* token; every answer is appended to places; after an answer without a token
\* get_places returns places as they are, after one with a token it goes on
C12_PaginationProtocol ==
    /\ [][(pages' = pages + 1) =>
            /\ request' = response.next_page_token
            /\ (pages = 0) => (request' = 0 /\ places = <<>>)
            /\ (pages > 0) => response.next_page_token # 0
            /\ places' = places \o response'.results]_vars
    /\ [][(pc = "crawl" /\ Top.at = "sleep" /\ pc' = "crawl") =>
            /\ places' = places
            /\ Top'.at = IF response.next_page_token = 0 THEN "fetched" ELSE "drain"
            /\ response.next_page_token # 0 => response' = response]_vars

\* a drain of more than one page has returned
C12_Witness ==
    /\ pc = "crawl"
    /\ Top.at = "fetched"
    /\ Len(places) > PageLen
    /\ Len(places) < ProviderCap

\* C13: a call with a distance below the edge length of its resolution
\* returns one tile, and that tile lies where the centre passed lies
C13_DegenerateTiling ==
    \A n \in DOMAIN tiler.calls :
        LET call == tiler.calls[n]
        IN  call.distance_meters * 1000 < EdgeLengthMM[tiler.h_resolution] =>
                /\ Len(call.hex_centroids) = 1
                /\ call.hex_centroids[1][2] = tiler.coord[2]
                /\ call.hex_centroids[1][3] = tiler.coord[3]

\* a call at resolution 7 with more than 5000 m, on a centre off the origin
C13_Witness ==
    \E n \in DOMAIN tiler.calls :
        /\ tiler.calls[n].distance_meters > 5000
        /\ tiler.calls[n].distance_meters * 1000 < EdgeLengthMM[tiler.h_resolution]
        /\ tiler.coord[2] # 0
        /\ Len(tiler.calls[n].hex_centroids) = 1

\* the whole number of edge lengths that fit into the distance
HopsOf(distance_meters, h_resolution) ==
    CHOOSE k \in 0 .. MaxHops + 1 :
        /\ k * EdgeLengthMM[h_resolution] <= distance_meters * 1000
        /\ distance_meters * 1000 < (k + 1) * EdgeLengthMM[h_resolution]

\* C14: of two calls on the same centre and resolution the one with the
\* larger distance returns at least as many tiles; a call returns the
\* 1 + 3k(k+1) distinct tiles of the disk of k = floor(distance / edge) hops
C14_MonotonicCoverage ==
    /\ \A n, m \in DOMAIN tiler.calls :
           tiler.calls[n].distance_meters <= tiler.calls[m].distance_meters =>
               Len(tiler.calls[n].hex_centroids) <= Len(tiler.calls[m].hex_centroids)
    /\ \A n \in DOMAIN tiler.calls :
           LET call == tiler.calls[n]
           IN  /\ Len(call.hex_centroids) =
                      DiskSize(HopsOf(call.distance_meters, tiler.h_resolution))
               /\ Cardinality(Range(call.hex_centroids)) = Len(call.hex_centroids)

\* a call of one hop and a call of two hops on the same centre
C14_Witness ==
    /\ Len(tiler.calls) = 2
    /\ Len(tiler.calls[1].hex_centroids) = 19
    /\ Len(tiler.calls[2].hex_centroids) = 7

\* the calls of search_radius a run can nest: one for each table resolution
\* from the starting one on, and the one that fails past the table
MaxDepth ==
    (IF options.resolution <= FinestRes THEN FinestRes - options.resolution + 1 ELSE 0) + 1

\* C15: the nested calls work at consecutive resolutions from the starting
\* one, so there are never more than MaxDepth of them; and once search_radius
\* has been called, the call and all calls inside it end, by return or by an
\* exception
C15_Termination ==
    /\ [](/\ Len(stack) <= MaxDepth
          /\ \A d \in 1 .. Len(stack) : stack[d].h_resolution = options.resolution + d - 1)
    /\ (pc = "crawl") ~> (pc # "crawl")

\* as many nested calls as the table allows, the innermost failing
C15_Witness ==
    /\ pc = "crawl"
    /\ Len(stack) = MaxDepth
    /\ Len(stack) > 1
    /\ Top.h_resolution \notin Resolutions

TileAt(d) == stack[d].hex_coords[stack[d].i]

C17_MonotoneStores ==
    [][(run' = run) =>
        /\ crawled_store \subseteq crawled_store'
        /\ DOMAIN place_store \subseteq DOMAIN place_store'
        /\ (pc # "load" /\ (crawled_store' # crawled_store \/ place_store' # place_store)) =>
               /\ pc = "crawl"
               /\ pc' = "crawl"
               /\ Top.at \in {"fetched", "merged", "mark"}]_vars

\* both stores grew from nothing and an interruption left them as they were
C17_Witness ==
    /\ run = 1
    /\ pc = "exited"
    /\ raised = "KeyboardInterrupt"
    /\ flushes = 2
    /\ Cardinality(crawled_store) > 1
    /\ place_store # EmptyStore

C19_InterruptedDrainNoEffect ==
    /\ [][(pc = "crawl" /\ InDrain) =>
            (place_store' = place_store /\ crawled_store' = crawled_store)]_vars
    /\ [](lost \cap DOMAIN place_store = {})
    /\ []((pc = "exited" /\ flushes = 2) =>
            (lost \cap DOMAIN FilePlaces = {} /\ aborted \cap FileCoords = {}))

\* the provider raised after it had served a page of places the store lacks
C19_Witness ==
    /\ pc = "exited"
    /\ raised = "ApiError"
    /\ flushes = 2
    /\ lost # {}
    /\ crawled_store # {}

====
